---- MODULE Spec2Model ----
(***************************************************************************)
(* Model of keyboard_singer.py: the KeyboardSinger sequencer.              *)
(*                                                                         *)
(* Up to NumThreads threads run handle_press against one shared            *)
(* KeyboardSinger object, and restart may be called at any time.  Time is  *)
(* the monotonic clock counted in ticks; gate_seconds is counted in the    *)
(* same ticks.  A handle_press call is identified by its number in the     *)
(* order of the timestamp readings (threads carry no state from one call   *)
(* to the next, so the thread that runs a call does not matter).  A call   *)
(* is split where another thread can come in between and see or change     *)
(* shared state:                                                           *)
(*   Sample   line 81      the timestamp is read, outside the lock         *)
(*   Gate     lines 82-85  the lock is taken and the gate tested; a        *)
(*                         debounced call releases the lock and returns    *)
(*   Advance  lines 86-88  next_note, song and position, still under the   *)
(*                         lock, which the end of the with block releases  *)
(*   Emit     lines 90-94  the playback thread is started and the status   *)
(*                         line printed, outside the lock                  *)
(***************************************************************************)
EXTENDS Integers, Sequences, FiniteSets, TLC

\* ---------------------------------------------------------------- bounds
NumThreads == 2
MaxPresses == 3
MaxTime == 3

\* The handle_press calls, numbered in the order they read the clock.
Calls == 1..MaxPresses
NoCall == 0

\* ------------------------------------------------------------ song sets
\* Song(name, notes)
Song(name, notes) == [name |-> name, notes |-> notes]

\* The song lists a KeyboardSinger is constructed with.
SongLists ==
    { << Song("Twinkle", <<60, 67>>), Song("Scale", <<60, 62, 64>>) >>,
      << Song("Drone", <<64>>) >> }

\* The song lists __init__ is called with: those, and the empty list.
SongArgs == SongLists \cup { << >> }

\* Song is a plain dataclass and __init__ looks only at the list, so it
\* also accepts a list whose song has no notes.
AcceptedArgs == SongArgs \cup { << Song("Silent", << >>) >> }

\* The --gate arguments a KeyboardSinger is constructed with, in ticks.
GateArgs == {0 - 1, 0, 1, 2}

\* Max that returns its second argument as it is
MaxUnclamped(a, b) == b

\* max(0.0, gate_seconds) of __init__
Max(a, b) == IF a >= b THEN a ELSE b

VARIABLES
    error,          \* the exception raised by __init__ or a handler, or "none"
    gate_arg,       \* the gate_seconds argument of __init__
    songs,          \* self.songs (the songs argument of __init__)
    song_index,     \* self.song_index (0-based)
    note_index,     \* self.note_index (0-based)
    gate_seconds,   \* self.gate_seconds
    last_trigger,   \* self.last_trigger
    lock,           \* self.lock: the call holding it, or NoCall
    clock,          \* the last reading of time.monotonic()
    pc,             \* position of each handle_press call
    local,          \* locals of each handle_press call
    playing,        \* some playback thread has been started and not finished
    calls,          \* number of handle_press calls begun
    restarted,      \* history: restart has been called
    stamps,         \* history: timestamp read by each call, in call order
    gated,          \* history: outcome of each gate test, in lock order
    accepted,       \* history: result of each accepted trigger, in lock order
    dispatched,     \* history: playback threads started, in start order
    printed,        \* history: status lines printed, in print order
    sinceRestart    \* history: triggers accepted since construction/restart

vars == << error, gate_arg, songs, song_index, note_index, gate_seconds,
           last_trigger, lock, clock, pc, local, playing, calls, restarted,
           stamps, gated, accepted, dispatched, printed, sinceRestart >>

history == << stamps, gated, accepted, dispatched, printed >>

NoLocal == [id |-> 0, now |-> 0, note |-> 0, position |-> 0,
            song |-> "", length |-> 0]

\* The calls that have begun and not returned: one thread each.
InFlight == {c \in Calls : pc[c] \in {"gate", "advance", "emit"}}

\* ------------------------------------------------------------ the object
\* current_song that selects the last song of the list
last_song == songs[Len(songs)]

\* current_song property
current_song == songs[song_index + 1]

\* len(song.notes) of the current song
SongLen == Len(current_song.notes)

\* GateClosed with the window one tick too short
GateClosedShort(now, last, gate) == now - last + 1 < gate

\* GateClosed that measures the distance between the timestamps
GateClosedEitherSide(now, last, gate) ==
    (IF now >= last THEN now - last ELSE last - now) < gate

\* GateClosed that also rejects a trigger exactly one gate after the last
GateClosedInclusive(now, last, gate) == now - last <= gate

\* the gate test of handle_press: now - self.last_trigger < self.gate_seconds
GateClosed(now, last, gate) == now - last < gate

\* NextNoteIndex that leaves the cursor where it is
NextNoteIndexStuck(i, n) == i

\* NextNoteIndex without the wrap to 0
NextNoteIndexNoWrap(i, n) == i + 1

\* next_note: the cursor after the advance
NextNoteIndex(i, n) == (i + 1) % n

\* CurrentPosition without the "or len(song.notes)" fallback
CurrentPositionZero(i, n) == i

\* handle_press: current_position = self.note_index or len(song.notes)
CurrentPosition(i, n) == IF i # 0 THEN i ELSE n

\* EmptySongs that lets every list through
EmptySongsNever(s) == FALSE

\* __init__ line 52: if not songs
EmptySongs(s) == s = << >>

\* __init__ returned a sequencer (it did not raise).
Constructed == error # "ValueError"

\* KeyboardSinger.__init__.  When it raises on line 53 no field is assigned
\* and there is no sequencer: the fields keep the values below and no
\* operation is ever applied to them.
InitFrom(args) ==
    /\ songs \in args
    /\ error = IF EmptySongs(songs) THEN "ValueError" ELSE "none"
    /\ song_index = 0
    /\ note_index = 0
    /\ gate_arg \in GateArgs
    /\ gate_seconds = Max(0, gate_arg)
    /\ last_trigger = 0
    /\ lock = NoCall
    /\ clock = 0
    /\ pc = [c \in Calls |-> "new"]
    /\ local = [c \in Calls |-> NoLocal]
    /\ playing = FALSE
    /\ calls = 0
    /\ restarted = FALSE
    /\ stamps = << >>
    /\ gated = << >>
    /\ accepted = << >>
    /\ dispatched = << >>
    /\ printed = << >>
    /\ sinceRestart = 0

\* Construction from the song lists of the program: every song has notes
\* (build_default_songs, parse_builtin_song and collect_songs see to it).
Init == InitFrom(SongArgs)

\* Construction from every song list __init__ accepts or rejects.
AnyInit == InitFrom(AcceptedArgs)

\* handle_press line 81: now = time.monotonic(), on a free thread.  The
\* monotonic clock is read nowhere else, so the time that has passed since
\* the previous reading is chosen here: the reading is at least the
\* previous one.
Sample(c) ==
    /\ Constructed
    /\ pc[c] = "new"
    /\ c = calls + 1
    /\ Cardinality(InFlight) < NumThreads
    /\ calls' = c
    /\ \E now \in clock..MaxTime :
          /\ clock' = now
          /\ local' = [local EXCEPT ![c] = [NoLocal EXCEPT !.id = c,
                                                           !.now = now]]
          /\ stamps' = Append(stamps, now)
    /\ pc' = [pc EXCEPT ![c] = "gate"]
    /\ UNCHANGED << error, gate_arg, songs, song_index, note_index,
                    gate_seconds, last_trigger, lock, playing, restarted,
                    gated, accepted, dispatched, printed, sinceRestart >>

\* Debounce that stamps last_trigger before returning
DebounceStamping(c) ==
    /\ lock' = NoCall
    /\ pc' = [pc EXCEPT ![c] = "done"]
    /\ gated' = Append(gated, [id |-> c, now |-> local[c].now, ok |-> FALSE])
    /\ last_trigger' = local[c].now
    /\ local' = [local EXCEPT ![c] = NoLocal]
    /\ UNCHANGED << error, gate_arg, songs, song_index, note_index,
                    gate_seconds, clock, playing, calls, restarted, stamps,
                    accepted, dispatched, printed, sinceRestart >>

\* handle_press lines 83-84: the early return of a debounced press, which
\* leaves the with block (releasing the lock) and the handler.
Debounce(c) ==
    /\ lock' = NoCall
    /\ pc' = [pc EXCEPT ![c] = "done"]
    /\ gated' = Append(gated, [id |-> c, now |-> local[c].now, ok |-> FALSE])
    /\ local' = [local EXCEPT ![c] = NoLocal]
    /\ UNCHANGED << error, gate_arg, songs, song_index, note_index,
                    gate_seconds, last_trigger, clock, playing, calls,
                    restarted, stamps, accepted, dispatched, printed,
                    sinceRestart >>

\* handle_press line 85: self.last_trigger = now, with the lock held
Accept(c) ==
    /\ lock' = c
    /\ last_trigger' = local[c].now
    /\ pc' = [pc EXCEPT ![c] = "advance"]
    /\ gated' = Append(gated, [id |-> c, now |-> local[c].now, ok |-> TRUE])
    /\ UNCHANGED << error, gate_arg, songs, song_index, note_index,
                    gate_seconds, clock, local, playing, calls, restarted,
                    stamps, accepted, dispatched, printed, sinceRestart >>

\* handle_press lines 82-85: the lock is taken (the call waits while another
\* holds it) and the gate tested.
Gate(c) ==
    /\ pc[c] = "gate"
    /\ lock = NoCall
    /\ IF GateClosed(local[c].now, last_trigger, gate_seconds)
         THEN Debounce(c)
         ELSE Accept(c)

\* next_note line 68 with the cursor outside the song: song.notes[...]
\* raises IndexError, which leaves the with block (releasing the lock) and
\* the handler, after last_trigger was set on line 85.
RaiseIndexError(c) ==
    /\ error' = "IndexError"
    /\ lock' = NoCall
    /\ pc' = [pc EXCEPT ![c] = "done"]
    /\ local' = [local EXCEPT ![c] = NoLocal]
    /\ UNCHANGED << gate_arg, songs, song_index, note_index, gate_seconds,
                    last_trigger, clock, playing, calls, restarted, history,
                    sinceRestart >>

\* handle_press lines 86-88 and the end of the with block: next_note, the
\* song and the displayed position, then the lock is released.
NextNote(c) ==
    /\ LET note == current_song.notes[note_index + 1]
           next == NextNoteIndex(note_index, SongLen)
           res  == [local[c] EXCEPT !.note = note,
                                    !.song = current_song.name,
                                    !.length = SongLen,
                                    !.position = CurrentPosition(next, SongLen)]
       IN /\ note_index' = next
          /\ local' = [local EXCEPT ![c] = res]
          /\ accepted' = Append(accepted, res)
    /\ sinceRestart' = sinceRestart + 1
    /\ lock' = NoCall
    /\ pc' = [pc EXCEPT ![c] = "emit"]
    /\ UNCHANGED << error, gate_arg, songs, song_index, gate_seconds,
                    last_trigger, clock, playing, calls, restarted, stamps,
                    gated, dispatched, printed >>

\* handle_press lines 86-88: the advance, or the IndexError of next_note
\* when the cursor is not an index of the song's notes.
Advance(c) ==
    /\ pc[c] = "advance"
    /\ IF note_index + 1 \in DOMAIN current_song.notes
         THEN NextNote(c)
         ELSE RaiseIndexError(c)

\* Emit that first waits until no earlier playback thread is running
EmitJoining(c) ==
    /\ pc[c] = "emit"
    /\ ~playing
    /\ dispatched' = Append(dispatched, [id |-> c, note |-> local[c].note])
    /\ playing' = TRUE
    /\ printed' = Append(printed, local[c])
    /\ pc' = [pc EXCEPT ![c] = "done"]
    /\ local' = [local EXCEPT ![c] = NoLocal]
    /\ UNCHANGED << error, gate_arg, songs, song_index, note_index,
                    gate_seconds, last_trigger, lock, clock, calls, restarted,
                    stamps, gated, accepted, sinceRestart >>

\* Emit that reads the displayed position from the cursor when it prints
EmitRereadingPosition(c) ==
    /\ pc[c] = "emit"
    /\ dispatched' = Append(dispatched, [id |-> c, note |-> local[c].note])
    /\ playing' = TRUE
    /\ printed' = Append(printed,
                         [local[c] EXCEPT
                            !.position = CurrentPosition(note_index, SongLen)])
    /\ pc' = [pc EXCEPT ![c] = "done"]
    /\ local' = [local EXCEPT ![c] = NoLocal]
    /\ UNCHANGED << error, gate_arg, songs, song_index, note_index,
                    gate_seconds, last_trigger, lock, clock, calls, restarted,
                    stamps, gated, accepted, sinceRestart >>

\* Emit that plays the note under the cursor instead of the note it was given
EmitRereading(c) ==
    /\ pc[c] = "emit"
    /\ dispatched' = Append(dispatched,
                            [id |-> c,
                             note |-> current_song.notes[note_index + 1]])
    /\ playing' = TRUE
    /\ printed' = Append(printed, local[c])
    /\ pc' = [pc EXCEPT ![c] = "done"]
    /\ local' = [local EXCEPT ![c] = NoLocal]
    /\ UNCHANGED << error, gate_arg, songs, song_index, note_index,
                    gate_seconds, last_trigger, lock, clock, calls, restarted,
                    stamps, gated, accepted, sinceRestart >>

\* handle_press lines 90-94: threading.Thread(...).start() and the status
\* line, then the handler returns without waiting for the playback thread.
Emit(c) ==
    /\ pc[c] = "emit"
    /\ dispatched' = Append(dispatched, [id |-> c, note |-> local[c].note])
    /\ playing' = TRUE
    /\ printed' = Append(printed, local[c])
    /\ pc' = [pc EXCEPT ![c] = "done"]
    /\ local' = [local EXCEPT ![c] = NoLocal]
    /\ UNCHANGED << error, gate_arg, songs, song_index, note_index,
                    gate_seconds, last_trigger, lock, clock, calls, restarted,
                    stamps, gated, accepted, sinceRestart >>

\* play_note_thread: the playback threads that were running have finished.
\* They share no state with each other or with the sequencer, and nothing
\* reads how many there are, so only whether one is running is kept.
PlayDone ==
    /\ playing
    /\ playing' = FALSE
    /\ UNCHANGED << error, gate_arg, songs, song_index, note_index,
                    gate_seconds, last_trigger, lock, clock, pc, local, calls,
                    restarted, history, sinceRestart >>

\* Restart that does not take the lock
RestartUnlocked ==
    /\ Constructed
    /\ note_index' = 0
    /\ restarted' = TRUE
    /\ sinceRestart' = 0
    /\ UNCHANGED << error, gate_arg, songs, song_index, gate_seconds,
                    last_trigger, lock, clock, pc, local, playing, calls,
                    history >>

\* Restart that also forgets the last trigger
RestartReopening ==
    /\ Constructed
    /\ lock = NoCall
    /\ note_index' = 0
    /\ last_trigger' = 0
    /\ restarted' = TRUE
    /\ sinceRestart' = 0
    /\ UNCHANGED << error, gate_arg, songs, song_index, gate_seconds, lock,
                    clock, pc, local, playing, calls, history >>

\* restart: with self.lock: self.note_index = 0.  The lock is taken, the
\* cursor reset and the lock released with nothing of the caller's in
\* between, so the call is one step, taken when the lock is free.
Restart ==
    /\ Constructed
    /\ lock = NoCall
    /\ note_index' = 0
    /\ restarted' = TRUE
    /\ sinceRestart' = 0
    /\ UNCHANGED << error, gate_arg, songs, song_index, gate_seconds,
                    last_trigger, lock, clock, pc, local, playing, calls,
                    history >>

\* ------------------------------------------------- serial reference run
\* The result handle_press prints and plays: note, song, position, length.
TriggerResult(r) == [note |-> r.note, song |-> r.song,
                     position |-> r.position, length |-> r.length]

\* The sequencer fields a serial run carries, as __init__ leaves them.
Fresh == [note_index |-> 0, last_trigger |-> 0, results |-> << >>]

\* handle_press lines 82-88 run as one uninterrupted critical section on
\* the fields st with the timestamp now.
SerialPress(st, now) ==
    IF GateClosed(now, st.last_trigger, gate_seconds)
      THEN st
      ELSE LET next == NextNoteIndex(st.note_index, SongLen)
           IN [note_index |-> next,
               last_trigger |-> now,
               results |-> Append(st.results,
                   [note |-> current_song.notes[st.note_index + 1],
                    song |-> current_song.name,
                    position |-> CurrentPosition(next, SongLen),
                    length |-> SongLen])]

\* handle_press called once per timestamp of ts, one call after the other.
RECURSIVE SerialRun(_, _)
SerialRun(ts, st) ==
    IF ts = << >> THEN st
    ELSE SerialRun(Tail(ts), SerialPress(st, Head(ts)))

Next ==
    \/ \E c \in Calls : Sample(c)
    \/ \E c \in Calls : Gate(c)
    \/ \E c \in Calls : Advance(c)
    \/ \E c \in Calls : Emit(c)
    \/ PlayDone
    \/ Restart

Spec == Init /\ [][Next]_vars

\* The same operations on every sequencer __init__ returns.
AnySpec == AnyInit /\ [][Next]_vars

\* Every thread inside handle_press keeps being scheduled.  Nothing is
\* assumed of the playback threads: they may run forever.
Fairness ==
    \A c \in Calls :
        /\ WF_vars(Gate(c))
        /\ WF_vars(Advance(c))
        /\ WF_vars(Emit(c))

FairSpec == Spec /\ Fairness

\* ------------------------------------------------------------ properties

\* No caller thread is inside handle_press or restart.
Quiescent == InFlight = {}

Abs(x) == IF x >= 0 THEN x ELSE 0 - x

\* C1: with no restart, the K-th accepted trigger yields
\* notes[(K-1) mod L] and displayPosition ((K-1) mod L) + 1, which lies in
\* 1..L and is never 0.
C1_KthAcceptedTrigger ==
    ~restarted =>
        \A k \in 1..Len(accepted) :
            /\ accepted[k].note = current_song.notes[((k - 1) % SongLen) + 1]
            /\ accepted[k].position = ((k - 1) % SongLen) + 1
            /\ accepted[k].position \in 1..SongLen

\* C1 witness: more triggers accepted than the song has notes, so the
\* cursor has wrapped, on a song of more than one note.
C1_Witness ==
    /\ Constructed
    /\ ~restarted
    /\ SongLen > 1
    /\ Len(accepted) > SongLen
    /\ accepted[Len(accepted)].position = 1

\* C2: the first trigger on a freshly constructed sequencer is accepted,
\* whatever its timestamp and the gate duration.
C2_FirstTriggerAccepted ==
    Len(gated) >= 1 => gated[1].ok

\* C3: when gate_seconds = 0 every trigger is accepted; none is debounced.
C3_GateZeroAcceptsAll ==
    gate_seconds = 0 => \A i \in 1..Len(gated) : gated[i].ok

\* C4: a trigger that meets a closed gate is a complete no-op: the step
\* that returns from it leaves song_index, note_index and last_trigger
\* unchanged, produces no result, spawns no playback and prints nothing,
\* and its call never shows up among the results, dispatches or lines.
C4_DebouncedStep ==
    \A c \in Calls :
        ( /\ pc[c] = "gate"
          /\ pc'[c] # "gate"
          /\ GateClosed(local[c].now, last_trigger, gate_seconds) )
        => /\ pc'[c] = "done"
           /\ UNCHANGED << song_index, note_index, last_trigger, accepted,
                           dispatched, printed, playing >>

C4_DebouncedLeavesNoTrace ==
    \A i \in 1..Len(gated) :
        ~gated[i].ok =>
            /\ \A k \in 1..Len(accepted) : accepted[k].id # gated[i].id
            /\ \A k \in 1..Len(dispatched) : dispatched[k].id # gated[i].id
            /\ \A k \in 1..Len(printed) : printed[k].id # gated[i].id

\* C4: both parts together: the debounced step changes nothing, and the
\* debounced call leaves no result, dispatch or status line behind.
C4_DebouncedNoOp ==
    [][C4_DebouncedStep]_vars /\ []C4_DebouncedLeavesNoTrace

\* C4 witness: a trigger was debounced right after an accepted one, at a
\* later timestamp.
C4_Witness ==
    \E i \in 2..Len(gated) :
        /\ gated[i - 1].ok
        /\ ~gated[i].ok
        /\ gated[i].now > gated[i - 1].now

\* C5: any two distinct accepted triggers have timestamps that differ by
\* at least gate_seconds.
C5_OnePerGateWindow ==
    \A i, j \in 1..Len(gated) :
        (i < j /\ gated[i].ok /\ gated[j].ok)
        => Abs(gated[j].now - gated[i].now) >= gate_seconds

\* C5 witness: with a positive gate, two triggers were accepted and one
\* between them was debounced.
C5_Witness ==
    /\ gate_seconds > 0
    /\ \E i, j, m \in 1..Len(gated) :
          i < m /\ m < j /\ gated[i].ok /\ ~gated[m].ok /\ gated[j].ok

\* Number of occurrences of x in the sequence q.
Count(q, x) == Cardinality({i \in DOMAIN q : q[i] = x})

\* The sequences a and b hold the same elements with the same multiplicity.
SameBag(a, b) ==
    /\ Len(a) = Len(b)
    /\ \A i \in DOMAIN a : Count(a, a[i]) = Count(b, a[i])

\* The results of the accepted triggers, in lock order.
AcceptedResults == [k \in DOMAIN accepted |-> TriggerResult(accepted[k])]

\* C6: when all calls have returned (and no restart was made), the cursor,
\* last_trigger and the multiset of accepted results are those of the same
\* calls made one after the other in timestamp order.
C6_ConcurrentEqualsSerial ==
    (Quiescent /\ ~restarted) =>
        LET serial == SerialRun(stamps, Fresh)
        IN /\ note_index = serial.note_index
           /\ last_trigger = serial.last_trigger
           /\ SameBag(AcceptedResults, serial.results)

\* Position of call id in the order of acceptance.
AcceptRank(id) == CHOOSE k \in DOMAIN accepted : accepted[k].id = id

\* C7: playback threads are started in the order in which their triggers
\* were accepted inside the critical section.
C7_DispatchInAcceptOrder ==
    \A i, j \in DOMAIN dispatched :
        i < j => AcceptRank(dispatched[i].id) < AcceptRank(dispatched[j].id)

\* C8: every dispatch and every status line belongs to one accepted
\* trigger and carries its note, no trigger has two of either, a returned
\* accepted call has both, and when all calls have returned there are as
\* many dispatches and as many status lines as accepted triggers.
C8_OneDispatchOneLine ==
    /\ \A i \in DOMAIN dispatched :
          \E k \in DOMAIN accepted :
              /\ accepted[k].id = dispatched[i].id
              /\ accepted[k].note = dispatched[i].note
    /\ \A i \in DOMAIN printed :
          \E k \in DOMAIN accepted : accepted[k] = printed[i]
    /\ \A i, j \in DOMAIN dispatched :
          i # j => dispatched[i].id # dispatched[j].id
    /\ \A i, j \in DOMAIN printed : i # j => printed[i].id # printed[j].id
    /\ \A k \in DOMAIN accepted :
          pc[accepted[k].id] = "done" =>
              /\ \E i \in DOMAIN dispatched : dispatched[i].id = accepted[k].id
              /\ \E i \in DOMAIN printed : printed[i].id = accepted[k].id
    /\ Quiescent => /\ Len(dispatched) = Len(accepted)
                    /\ Len(printed) = Len(accepted)

\* C8 witness: all calls have returned, two were accepted with different
\* notes and one was debounced.
C8_Witness ==
    /\ Quiescent
    /\ Len(dispatched) = 2
    /\ dispatched[1].note # dispatched[2].note
    /\ \E i \in DOMAIN gated : ~gated[i].ok

\* C9 as stated: the lock is never held while a playback unit runs.
C9_LockNeverHeldWhilePlaying ==
    lock # NoCall => ~playing

\* The lock is held only by a call inside its critical section: never by a
\* call that is starting its playback thread or printing.
C9_LockOnlyInCriticalSection ==
    /\ lock # NoCall => pc[lock] = "advance"
    /\ \A c \in Calls : pc[c] = "emit" => lock # c

\* C9 (amended): under fair scheduling of the callers every handle_press
\* call returns, whether or not any playback thread ever finishes, and the
\* lock is never held by a call that is starting its playback thread.
C9_HandlerNeverWaitsOnPlayback ==
    /\ []C9_LockOnlyInCriticalSection
    /\ \A c \in Calls : (pc[c] \in {"gate", "advance", "emit"}) ~> (pc[c] = "done")

\* C9 witness: every call has been made and has returned, two playback
\* threads were started and one is still running.
C9_Witness ==
    /\ calls = MaxPresses
    /\ Quiescent
    /\ Len(dispatched) >= 2
    /\ playing

\* The steps of restart: a cursor reset that is no step of a handle_press
\* call or of a playback thread.
IsRestartStep ==
    /\ pc' = pc
    /\ playing' = playing
    /\ restarted'

\* C10: a restart happens with the lock free, sets note_index to 0 and
\* leaves last_trigger, song_index and gate_seconds unchanged, so the gate
\* verdict of every waiting call is the same before and after it.
C10_RestartStep ==
    IsRestartStep =>
        /\ lock = NoCall
        /\ note_index' = 0
        /\ UNCHANGED << last_trigger, song_index, gate_seconds, songs, lock >>
        /\ \A c \in Calls :
              pc[c] = "gate" =>
                  ( GateClosed(local[c].now, last_trigger', gate_seconds')
                    <=> GateClosed(local[c].now, last_trigger, gate_seconds) )

\* C10: the first trigger to advance after a restart yields notes[0].
C10_FirstNoteAfterRestart ==
    \A c \in Calls :
        (pc[c] = "advance" /\ pc'[c] = "emit" /\ restarted
         /\ sinceRestart = 0)
        => /\ local'[c].note = current_song.notes[1]
           /\ local'[c].position = 1

\* C10: restart resets only the cursor, under the lock, without reopening
\* the gate, and the next trigger to advance yields notes[0].
C10_Restart ==
    [][C10_RestartStep /\ C10_FirstNoteAfterRestart]_vars

\* C10 witness: on a two-note song a trigger moved the cursor to 1, a
\* restart was made, a call inside the gate window was debounced, and the
\* next accepted trigger played notes[0] again.
C10_Witness ==
    /\ Constructed
    /\ SongLen = 2
    /\ restarted
    /\ sinceRestart = 1
    /\ Len(gated) = 3
    /\ gated[1].ok /\ ~gated[2].ok /\ gated[3].ok
    /\ gated[2].now >= gated[1].now
    /\ Len(accepted) = 2
    /\ accepted[2].note = current_song.notes[1]
    /\ accepted[2].position = 1

\* C11: construction raises ValueError exactly when the song list is empty,
\* and then there is no sequencer (nothing is ever done with it); with a
\* non-empty list it succeeds with song_index = 0 and note_index = 0.
C11_Construction ==
    /\ (songs = << >>) <=> (error = "ValueError")
    /\ ~Constructed =>
          /\ calls = 0 /\ ~restarted /\ ~playing /\ lock = NoCall
          /\ \A c \in Calls : pc[c] = "new"
    /\ (Constructed /\ calls = 0 /\ ~restarted) =>
          /\ error = "none"
          /\ song_index = 0
          /\ note_index = 0

\* C11 witness: a construction with the empty song list, which raised.
C11_Witness ==
    /\ songs = << >>
    /\ error = "ValueError"

\* A gate test made by a sequencer built with a negative gate has the
\* outcome it has with gate 0: accepted exactly when now >= last_trigger.
C12_NegativeGateStep ==
    \A c \in Calls :
        (gate_arg < 0 /\ pc[c] = "gate" /\ pc'[c] # "gate")
        => (pc'[c] = "advance" <=> local[c].now >= last_trigger)

\* gate_seconds is the argument, or 0 when the argument is negative, and a
\* negative argument does not make the construction fail.
C12_GateNonNegative ==
    /\ gate_seconds >= 0
    /\ gate_seconds = IF gate_arg < 0 THEN 0 ELSE gate_arg
    /\ (gate_arg < 0 /\ songs # << >>) => Constructed

\* C12: a negative gate argument does not fail and is clamped to zero:
\* gate_seconds >= 0 in every state, it never changes, and the sequencer
\* built with a negative gate tests the gate as one built with gate 0.
C12_GateClamped ==
    /\ []C12_GateNonNegative
    /\ [][gate_seconds' = gate_seconds /\ C12_NegativeGateStep]_vars

\* C12 witness: a sequencer built with a negative gate has accepted one
\* trigger and debounced another.
C12_Witness ==
    /\ gate_arg < 0
    /\ \E i, j \in DOMAIN gated : gated[i].ok /\ ~gated[j].ok

OkGates == {i \in DOMAIN gated : gated[i].ok}

\* The timestamp of the most recently accepted trigger.
LastAcceptedNow ==
    gated[CHOOSE i \in OkGates : \A j \in OkGates : j <= i].now

\* C14 (the gate step of a trigger that is not the first through the
\* critical section): it is accepted exactly when
\* now - last_trigger >= gate_seconds.
C14_GateStep ==
    \A c \in Calls :
        (pc[c] = "gate" /\ pc'[c] # "gate" /\ Len(gated) >= 1)
        => (pc'[c] = "advance"
              <=> local[c].now - last_trigger >= gate_seconds)

\* C14 (last_trigger): once a trigger has been accepted, last_trigger is
\* the timestamp of the most recently accepted one.
C14_LastTriggerIsLastAccepted ==
    OkGates # {} => last_trigger = LastAcceptedNow

\* C14: a non-first trigger is accepted exactly when
\* now - lastTriggerTime >= gateDuration, lastTriggerTime being the
\* timestamp of the most recently accepted trigger; a trigger exactly one
\* gate after it is accepted.
C14_GateRule ==
    /\ []C14_LastTriggerIsLastAccepted
    /\ [][C14_GateStep]_vars

\* C14 witness: with a positive gate, a trigger accepted, one inside the
\* window rejected, and one exactly gate_seconds after the accepted one
\* accepted.
C14_Witness ==
    /\ gate_seconds > 0
    /\ Len(gated) = 3
    /\ gated[1].ok /\ ~gated[2].ok /\ gated[3].ok
    /\ gated[2].now - gated[1].now < gate_seconds
    /\ gated[3].now - gated[1].now = gate_seconds

\* The calls inside the with block of handle_press.
InCritical == {c \in Calls : pc[c] = "advance"}

\* C15 (states): at most one call is inside the critical section, and it
\* is the call that holds the lock.
C15_OneInside ==
    /\ Cardinality(InCritical) <= 1
    /\ \A c \in Calls : c \in InCritical <=> lock = c

\* C15 (steps): a step that writes note_index or last_trigger is taken by
\* the call that holds the lock, or takes the free lock itself; no step
\* writes them while another call holds the lock, and no call enters the
\* critical section while the lock is held.
C15_WritesUnderLock ==
    /\ (note_index' # note_index \/ last_trigger' # last_trigger)
       => \/ lock = NoCall
          \/ /\ lock \in InCritical
             /\ pc'[lock] # "advance"
             /\ \A c \in Calls \ {lock} : pc'[c] = pc[c]
    /\ \A c \in Calls :
          (pc[c] = "gate" /\ pc'[c] # "gate") => lock = NoCall

\* C15: mutual exclusion of the critical sections of handle_press and
\* restart; note_index and last_trigger are only touched with the lock.
C15_MutualExclusion ==
    /\ []C15_OneInside
    /\ [][C15_WritesUnderLock]_vars

\* C15 witness: one call is inside the critical section, after its
\* last_trigger write and before its cursor write, while another call
\* has read its timestamp and waits for the lock.
C15_Witness ==
    \E c, w \in Calls :
        /\ pc[c] = "advance" /\ lock = c
        /\ pc[w] = "gate"
        /\ last_trigger = local[c].now
        /\ note_index > 0

\* C16: in every state of a constructed sequencer,
\* 0 <= song_index < len(songs) and
\* 0 <= note_index < len(current_song.notes).
C16_IndicesInRange ==
    Constructed =>
        /\ 0 <= song_index /\ song_index < Len(songs)
        /\ 0 <= note_index /\ note_index < SongLen

\* C16 witness: after a restart and two more accepted triggers the cursor
\* is on the last note of a song of several notes, with a call in flight.
C16_Witness ==
    /\ Constructed
    /\ restarted
    /\ SongLen > 1
    /\ note_index = SongLen - 1
    /\ Len(accepted) >= 2
    /\ InFlight # {}

\* C17 (states): the cursor is the number of triggers accepted since
\* construction or the last restart, mod the song's length, and a call
\* inside the critical section can always advance it (no terminal state).
C17_CursorCounts ==
    Constructed =>
        /\ note_index = sinceRestart % SongLen
        /\ \A c \in Calls : pc[c] = "advance" => ENABLED NextNote(c)

\* C17 (steps): each accepted trigger moves the cursor once, from i to
\* (i + 1) mod L, and nothing but an accepted trigger or a restart moves
\* the cursor.
C17_CursorStep ==
    /\ Len(accepted') = Len(accepted) + 1
       => note_index' = (note_index + 1) % SongLen
    /\ note_index' # note_index
       => \/ Len(accepted') = Len(accepted) + 1
          \/ restarted' /\ note_index' = 0 /\ accepted' = accepted

\* C17: the cursor advances exactly once per accepted trigger.
C17_AdvanceOncePerAccepted ==
    /\ []C17_CursorCounts
    /\ [][C17_CursorStep]_vars

\* C17 witness: one trigger accepted before a restart and two after it, on
\* a song of two notes: the cursor has gone round and is back on 0.
C17_Witness ==
    /\ Constructed
    /\ restarted
    /\ SongLen = 2
    /\ Len(accepted) = 3
    /\ sinceRestart = 2
    /\ note_index = 0

\* The notes of a song, as a set.
NotesOf(song) == {song.notes[k] : k \in DOMAIN song.notes}

\* C18 (states): song_index is 0, and every note dispatched and every
\* status line printed belongs to the first song of the list.
C18_FirstSongOnly ==
    Constructed =>
        /\ song_index = 0
        /\ \A i \in DOMAIN dispatched :
              dispatched[i].note \in NotesOf(songs[1])
        /\ \A i \in DOMAIN printed :
              /\ printed[i].song = songs[1].name
              /\ printed[i].length = Len(songs[1].notes)

\* C18: no operation changes song_index, so only the first song is ever
\* played; the songs after it never are.
C18_SongIndexNeverChanges ==
    /\ []C18_FirstSongOnly
    /\ [][song_index' = song_index]_vars

\* C18 witness: a list of two songs, a restart, and three notes
\* dispatched, the cursor having gone past the end of the first song.
C18_Witness ==
    /\ Len(songs) >= 2
    /\ restarted
    /\ Len(dispatched) = 3
    /\ Len(accepted) > Len(songs[1].notes)

\* The status line r is consistent with the song sg: the note is the one
\* at the displayed position and the length is the song's.
ConsistentWith(r, sg) ==
    /\ r.position \in DOMAIN sg.notes
    /\ r.note = sg.notes[r.position]
    /\ r.length = Len(sg.notes)

\* C19: every status line printed names a song of the list and is
\* consistent with that song: note = notes[displayPosition - 1] (0-based)
\* and songLength = the song's length, whatever ran between the critical
\* section and the print.
C19_StatusLineConsistent ==
    \A i \in DOMAIN printed :
        \E k \in DOMAIN songs :
            /\ songs[k].name = printed[i].song
            /\ ConsistentWith(printed[i], songs[k])

\* C19 witness: the first accepted trigger printed its line after the
\* second one had gone through the critical section and printed, and a
\* restart has reset the cursor since.
C19_Witness ==
    /\ Constructed
    /\ SongLen > 1
    /\ restarted
    /\ Len(printed) = 2
    /\ printed[1].id = accepted[2].id
    /\ printed[2].id = accepted[1].id
    /\ sinceRestart = 0

\* The largest timestamp among the accepted triggers.
LargestAcceptedNow ==
    LET ts == {gated[i].now : i \in OkGates}
    IN  CHOOSE t \in ts : \A u \in ts : u <= t

\* C20 (states): once a trigger has been accepted, last_trigger is the
\* largest timestamp among the accepted triggers.
C20_LargestAccepted ==
    /\ last_trigger >= 0
    /\ OkGates # {} => last_trigger = LargestAcceptedNow

\* C20 (steps): last_trigger never decreases, and a call that enters the
\* critical section with a timestamp older than last_trigger returns
\* debounced and leaves it as it is.
C20_NoStaleOverwrite ==
    /\ last_trigger' >= last_trigger
    /\ \A c \in Calls :
          (pc[c] = "gate" /\ pc'[c] # "gate" /\ local[c].now < last_trigger)
          => (pc'[c] = "done" /\ last_trigger' = last_trigger)

\* C20: last_trigger never decreases although the timestamps are read
\* before the lock is taken.
C20_LastTriggerMonotonic ==
    /\ []C20_LargestAccepted
    /\ [][C20_NoStaleOverwrite]_vars

\* C20 witness: with gate 0, a call whose timestamp is older than that of
\* a trigger accepted before it in lock order came back debounced, and a
\* later trigger was accepted after it.
C20_Witness ==
    /\ gate_seconds = 0
    /\ Len(gated) = 3
    /\ gated[1].ok /\ ~gated[2].ok /\ gated[3].ok
    /\ gated[2].now < gated[1].now
    /\ gated[2].id < gated[1].id
    /\ last_trigger = gated[3].now

====
